---- MODULE Spec2Model ----
(***************************************************************************)
(* Model of gmaps/directions.py: the Directions widget (a traitlets        *)
(* HasTraits object), its constructor, the legacy "data" shim, the         *)
(* bounding-box observer and the layer_status observer.                    *)
(*                                                                         *)
(* Python values are represented as follows:                               *)
(*   - an optional value is a sequence of length at most one:              *)
(*     None is <<>> and a present value x is <<x>>;                        *)
(*   - a point is a pair <<latitude, longitude>> of integers;              *)
(*   - a list is a sequence;                                               *)
(*   - an exception is <<type, message>>, the message being the sequence   *)
(*     of the string pieces the code concatenates.                         *)
(***************************************************************************)
EXTENDS Integers, Sequences, FiniteSets, TLC

VARIABLES constructed, start, end, waypoints, data, data_bounds,
          travel_mode, layer_status, call, raised

vars == <<constructed, start, end, waypoints, data, data_bounds,
          travel_mode, layer_status, call, raised>>

(***************************************************************************)
(* Bounds of the model.                                                    *)
(***************************************************************************)
MaxData == 3

MaxWaypoints == 1

(***************************************************************************)
(* Optional values.                                                        *)
(***************************************************************************)
None == <<>>

Some(x) == <<x>>

Val(o) == o[1]

Opt(S) == {None} \cup {Some(x) : x \in S}

SeqsUpTo(S, n) == UNION {[1..k -> S] : k \in 0..n}

(***************************************************************************)
(* Program constants.                                                      *)
(***************************************************************************)
ALLOWED_TRAVEL_MODES == {"BICYCLING", "DRIVING", "TRANSIT", "WALKING"}

DEFAULT_TRAVEL_MODE == "DRIVING"

MinLatitude == -90

MaxLatitude == 90

MinLongitude == -180

MaxLongitude == 180

(***************************************************************************)
(* Inputs the environment may supply.                                      *)
(***************************************************************************)
TestPoints == {<<-90, 180>>, <<90, -180>>, <<91, 0>>, <<0, -181>>}

TestModes == ALLOWED_TRAVEL_MODES \cup {"FLYING"}

TestStatuses == {"", "OK", "ZERO_RESULTS"}

DataPoints == {<<-90, 180>>, <<90, -180>>, <<0, -181>>}

DataLists == SeqsUpTo(DataPoints, MaxData)

WaypointLists == SeqsUpTo(TestPoints, MaxWaypoints)

(***************************************************************************)
(* Exceptions.                                                             *)
(***************************************************************************)
TraitError == <<"TraitError", <<>>>>

IndexError == <<"IndexError", <<>>>>

ValueError ==
    <<"ValueError", <<"Cannot set both data and one of \"start\", \"end\"",
                      "or \"waypoints\".">>>>

DirectionsServiceException(status) ==
    <<"DirectionsServiceException", <<"No directions returned: ">> \o <<status>>>>

(***************************************************************************)
(* Trait validation.                                                       *)
(***************************************************************************)
ValidPoint(p) ==
    /\ MinLatitude <= p[1] /\ p[1] <= MaxLatitude
    /\ MinLongitude <= p[2] /\ p[2] <= MaxLongitude

ValidPointTrait(o) == o # None /\ ValidPoint(Val(o))

ValidLocationArray(w) == \A i \in 1..Len(w) : ValidPoint(w[i])

ValidData(o) == o = None \/ Len(Val(o)) >= 2

\* Variant: a plain string trait in place of the Enum.
ValidTravelModeAnyString(m) == m \in STRING

ValidTravelMode(m) == m \in ALLOWED_TRAVEL_MODES

(***************************************************************************)
(* Directions._destructure_data                                            *)
(***************************************************************************)
\* Variant: the slice data[1:] in place of data[1:-1].
DestructureDataKeepsEnd(d) ==
    [start |-> d[1], end |-> d[Len(d)], waypoints |-> SubSeq(d, 2, Len(d))]

DestructureData(d) ==
    [start |-> d[1], end |-> d[Len(d)], waypoints |-> SubSeq(d, 2, Len(d) - 1)]

(***************************************************************************)
(* Directions._calc_bounds: Python's min() and max() as left folds over    *)
(* all_data.                                                               *)
(***************************************************************************)
RECURSIVE FoldMin(_, _, _)
FoldMin(rows, col, i) ==
    IF i = 1 THEN rows[1][col]
    ELSE LET m == FoldMin(rows, col, i - 1)
         IN IF rows[i][col] < m THEN rows[i][col] ELSE m

RECURSIVE FoldMax(_, _, _)
FoldMax(rows, col, i) ==
    IF i = 1 THEN rows[1][col]
    ELSE LET m == FoldMax(rows, col, i - 1)
         IN IF rows[i][col] > m THEN rows[i][col] ELSE m

\* Variant: all_data built without [self.end].
CalcBoundsWithoutEnd(s, w, e) ==
    LET all_data == <<s>> \o w
        n == Len(all_data)
    IN << <<FoldMin(all_data, 1, n), FoldMin(all_data, 2, n)>>,
          <<FoldMax(all_data, 1, n), FoldMax(all_data, 2, n)>> >>

CalcBounds(s, w, e) ==
    LET all_data == <<s>> \o w \o <<e>>
        n == Len(all_data)
        min_latitude == FoldMin(all_data, 1, n)
        min_longitude == FoldMin(all_data, 2, n)
        max_latitude == FoldMax(all_data, 1, n)
        max_longitude == FoldMax(all_data, 2, n)
    IN << <<min_latitude, min_longitude>>, <<max_latitude, max_longitude>> >>

(***************************************************************************)
(* Initial state: no widget has been constructed.                          *)
(***************************************************************************)
Init ==
    /\ constructed = FALSE
    /\ start = None
    /\ end = None
    /\ waypoints = <<>>
    /\ data = None
    /\ data_bounds = <<>>
    /\ travel_mode = DEFAULT_TRAVEL_MODE
    /\ layer_status = ""
    /\ call = [op |-> "none", arg |-> None]
    /\ raised = None

(***************************************************************************)
(* Directions.__init__, up to the call of the superclass constructor.      *)
(* "waypoints" is a named parameter of __init__, so it is never a key of   *)
(* kwargs and kwargs.get('waypoints') is None whatever the caller passed.  *)
(***************************************************************************)
KwargsGetWaypoints(w) == None

InitKwargs(s, e, w, d) ==
    IF d # None
    THEN LET wp == KwargsGetWaypoints(w)
         IN IF s = None /\ e = None /\ wp = None
            THEN IF Len(Val(d)) = 0
                 THEN [exc |-> IndexError, start |-> s, end |-> e,
                       waypoints |-> <<>>]
                 ELSE LET r == DestructureData(Val(d))
                      IN [exc |-> None, start |-> Some(r.start),
                          end |-> Some(r.end), waypoints |-> r.waypoints]
            ELSE [exc |-> ValueError, start |-> s, end |-> e,
                  waypoints |-> <<>>]
    ELSE [exc |-> None, start |-> s, end |-> e,
          waypoints |-> IF w = None THEN <<>> ELSE Val(w)]

(***************************************************************************)
(* HasTraits.__init__ applied to the keyword arguments: every trait is     *)
(* validated, and any failure aborts the construction.                     *)
(***************************************************************************)
ValidKwargs(kw, m) ==
    /\ ValidPointTrait(kw.start)
    /\ ValidPointTrait(kw.end)
    /\ ValidLocationArray(kw.waypoints)
    /\ (m = None \/ ValidTravelMode(Val(m)))

Construct(s, e, w, d, m) ==
    /\ call.op = "none"
    /\ call' = [op |-> "init",
                arg |-> [start |-> s, end |-> e, waypoints |-> w,
                         data |-> d, travel_mode |-> m]]
    /\ LET kw == InitKwargs(s, e, w, d)
       IN IF kw.exc # None
          THEN /\ raised' = kw.exc
               /\ UNCHANGED <<constructed, start, end, waypoints, data,
                              data_bounds, travel_mode, layer_status>>
          ELSE IF ~ValidKwargs(kw, m)
          THEN /\ raised' = TraitError
               /\ UNCHANGED <<constructed, start, end, waypoints, data,
                              data_bounds, travel_mode, layer_status>>
          ELSE /\ raised' = None
               /\ constructed' = TRUE
               /\ start' = kw.start
               /\ end' = kw.end
               /\ waypoints' = kw.waypoints
               /\ data' = None
               /\ data_bounds' =
                      CalcBounds(Val(kw.start), kw.waypoints, Val(kw.end))
               /\ travel_mode' =
                      IF m = None THEN DEFAULT_TRAVEL_MODE ELSE Val(m)
               /\ UNCHANGED layer_status

(***************************************************************************)
(* Assignments to the route traits.  A value that fails validation raises  *)
(* TraitError and is not stored; the observer _calc_bounds runs only when  *)
(* the stored value changes.                                               *)
(***************************************************************************)
SetStart(p) ==
    /\ constructed
    /\ call' = [op |-> "start", arg |-> p]
    /\ IF ~ValidPoint(p)
       THEN /\ raised' = TraitError
            /\ UNCHANGED <<start, data_bounds>>
       ELSE /\ raised' = None
            /\ start' = Some(p)
            /\ data_bounds' = IF Some(p) # start
                              THEN CalcBounds(p, waypoints, Val(end))
                              ELSE data_bounds
    /\ UNCHANGED <<constructed, end, waypoints, data, travel_mode,
                   layer_status>>

SetEnd(p) ==
    /\ constructed
    /\ call' = [op |-> "end", arg |-> p]
    /\ IF ~ValidPoint(p)
       THEN /\ raised' = TraitError
            /\ UNCHANGED <<end, data_bounds>>
       ELSE /\ raised' = None
            /\ end' = Some(p)
            /\ data_bounds' = IF Some(p) # end
                              THEN CalcBounds(Val(start), waypoints, p)
                              ELSE data_bounds
    /\ UNCHANGED <<constructed, start, waypoints, data, travel_mode,
                   layer_status>>

SetWaypoints(w) ==
    /\ constructed
    /\ call' = [op |-> "waypoints", arg |-> w]
    /\ IF ~ValidLocationArray(w)
       THEN /\ raised' = TraitError
            /\ UNCHANGED <<waypoints, data_bounds>>
       ELSE /\ raised' = None
            /\ waypoints' = w
            /\ data_bounds' = IF w # waypoints
                              THEN CalcBounds(Val(start), w, Val(end))
                              ELSE data_bounds
    /\ UNCHANGED <<constructed, start, end, data, travel_mode,
                   layer_status>>

(***************************************************************************)
(* Directions._on_data_change for a new value d that is not None.  The     *)
(* three assignments run in order inside hold_trait_notifications(): the   *)
(* first value that fails validation raises TraitError, the context        *)
(* manager restores the traits already assigned and drops the pending      *)
(* notifications; otherwise _calc_bounds runs once the block is left.      *)
(***************************************************************************)
OnDataChange(cur, d) ==
    LET r == DestructureData(d)
        rollback == [exc |-> TraitError, start |-> cur.start,
                     end |-> cur.end, waypoints |-> cur.waypoints,
                     data_bounds |-> cur.data_bounds]
    IN IF ~ValidPoint(r.start) THEN rollback
       ELSE IF ~ValidPoint(r.end) THEN rollback
       ELSE IF ~ValidLocationArray(r.waypoints) THEN rollback
       ELSE [exc |-> None, start |-> Some(r.start), end |-> Some(r.end),
             waypoints |-> r.waypoints,
             data_bounds |->
                 IF \/ Some(r.start) # cur.start
                    \/ Some(r.end) # cur.end
                    \/ r.waypoints # cur.waypoints
                 THEN CalcBounds(r.start, r.waypoints, r.end)
                 ELSE cur.data_bounds]

(***************************************************************************)
(* Assignment to the data trait: List(minlen=2, allow_none=True).  The     *)
(* value is stored before the observer runs, so it stays stored when the   *)
(* observer raises.                                                        *)
(***************************************************************************)
SetData(d) ==
    /\ constructed
    /\ call' = [op |-> "data", arg |-> d]
    /\ IF ~ValidData(d)
       THEN /\ raised' = TraitError
            /\ UNCHANGED <<start, end, waypoints, data, data_bounds>>
       ELSE IF d = data \/ d = None
       THEN /\ raised' = None
            /\ data' = d
            /\ UNCHANGED <<start, end, waypoints, data_bounds>>
       ELSE LET cur == [start |-> start, end |-> end,
                        waypoints |-> waypoints,
                        data_bounds |-> data_bounds]
                r == OnDataChange(cur, Val(d))
            IN /\ raised' = r.exc
               /\ data' = d
               /\ start' = r.start
               /\ end' = r.end
               /\ waypoints' = r.waypoints
               /\ data_bounds' = r.data_bounds
    /\ UNCHANGED <<constructed, travel_mode, layer_status>>

(***************************************************************************)
(* Assignment to travel_mode: Enum(ALLOWED_TRAVEL_MODES).                  *)
(***************************************************************************)
SetTravelMode(m) ==
    /\ constructed
    /\ call' = [op |-> "travel_mode", arg |-> m]
    /\ IF ValidTravelMode(m)
       THEN /\ raised' = None
            /\ travel_mode' = m
       ELSE /\ raised' = TraitError
            /\ UNCHANGED travel_mode
    /\ UNCHANGED <<constructed, start, end, waypoints, data, data_bounds,
                   layer_status>>

(***************************************************************************)
(* Directions._handle_layer_status, and the assignment to layer_status     *)
(* made when the browser-side widget reports a status.  The observer runs  *)
(* after the new value is stored, and only when the value changes.         *)
(***************************************************************************)
\* Variant: the status is left out of the message.
HandleLayerStatusNoStatus(new) ==
    IF new # "OK"
    THEN <<"DirectionsServiceException", <<"No directions returned: ">>>>
    ELSE None

HandleLayerStatus(new) ==
    IF new # "OK" THEN DirectionsServiceException(new) ELSE None

SetLayerStatus(s) ==
    /\ constructed
    /\ call' = [op |-> "layer_status", arg |-> s]
    /\ layer_status' = s
    /\ raised' = IF s # layer_status THEN HandleLayerStatus(s) ELSE None
    /\ UNCHANGED <<constructed, start, end, waypoints, data, data_bounds,
                   travel_mode>>

(***************************************************************************)
(* The whole program: one construction, then any sequence of assignments.  *)
(***************************************************************************)
Next ==
    \/ /\ call.op = "none"
       /\ \E s \in Opt(TestPoints), e \in Opt(TestPoints),
             w \in Opt(WaypointLists), d \in Opt(DataLists),
             m \in Opt(TestModes) : Construct(s, e, w, d, m)
    \/ \E p \in TestPoints : SetStart(p)
    \/ \E p \in TestPoints : SetEnd(p)
    \/ \E w \in WaypointLists : SetWaypoints(w)
    \/ \E d \in Opt(DataLists) : SetData(d)
    \/ \E m \in TestModes : SetTravelMode(m)
    \/ \E s \in TestStatuses : SetLayerStatus(s)

Spec == Init /\ [][Next]_vars

(***************************************************************************)
(* The route traits: a construction that leaves travel_mode unspecified,   *)
(* then assignments to start, end, waypoints and data.  These operations   *)
(* neither read nor write travel_mode and layer_status.                    *)
(***************************************************************************)
NextRoute ==
    \/ /\ call.op = "none"
       /\ \E s \in Opt(TestPoints), e \in Opt(TestPoints),
             w \in Opt(WaypointLists), d \in Opt(DataLists) :
                Construct(s, e, w, d, None)
    \/ \E p \in TestPoints : SetStart(p)
    \/ \E p \in TestPoints : SetEnd(p)
    \/ \E w \in WaypointLists : SetWaypoints(w)
    \/ \E d \in Opt(DataLists) : SetData(d)

SpecRoute == Init /\ [][NextRoute]_vars

(***************************************************************************)
(* The traits of the layer that are not part of the route: a construction  *)
(* from start, end and travel_mode, then assignments to travel_mode and    *)
(* status reports from the browser-side widget.                            *)
(***************************************************************************)
NextLayer ==
    \/ /\ call.op = "none"
       /\ \E s \in Opt(TestPoints), e \in Opt(TestPoints),
             m \in Opt(TestModes) : Construct(s, e, None, None, m)
    \/ \E m \in TestModes : SetTravelMode(m)
    \/ \E s \in TestStatuses : SetLayerStatus(s)

SpecLayer == Init /\ [][NextLayer]_vars

(***************************************************************************)
(* Properties.                                                             *)
(***************************************************************************)
MinOf(S) == CHOOSE x \in S : \A y \in S : x <= y

MaxOf(S) == CHOOSE x \in S : \A y \in S : x >= y

RoutePoints ==
    {Val(start), Val(end)} \cup {waypoints[i] : i \in 1..Len(waypoints)}

Latitudes == {p[1] : p \in RoutePoints}

Longitudes == {p[2] : p \in RoutePoints}

InRange(p) == p[1] \in -90..90 /\ p[2] \in -180..180

OutOfRangeList(l) == \E i \in 1..Len(l) : ~InRange(l[i])

OutOfRangeOpt(o) == o # None /\ ~InRange(Val(o))

OutOfRangeOptList(o) == o # None /\ OutOfRangeList(Val(o))

FourModes == {"BICYCLING", "DRIVING", "TRANSIT", "WALKING"}

\* C1: once a widget is constructed, after any sequence of assignments,
\* data_bounds is [(min latitude, min longitude), (max latitude, max
\* longitude)] over start, the waypoints and end: the smallest rectangle
\* that contains every point of the current route.
C1_BoundsAreMinimalRectangle ==
    constructed =>
        data_bounds = << <<MinOf(Latitudes), MinOf(Longitudes)>>,
                         <<MaxOf(Latitudes), MaxOf(Longitudes)>> >>

\* An assignment has just succeeded on a route with a waypoint, and no
\* corner of the bounding box is a point of the route.
C1_Witness ==
    /\ constructed
    /\ call.op \in {"start", "end", "waypoints"}
    /\ raised = None
    /\ Len(waypoints) >= 1
    /\ data_bounds = << <<-90, -180>>, <<90, 180>> >>

C3_DataWithRouteArgumentRaises ==
    (/\ call.op = "init"
     /\ call.arg.data # None
     /\ \/ call.arg.start # None
        \/ call.arg.end # None
        \/ call.arg.waypoints # None)
    => (raised = ValueError /\ ~constructed)

\* C4: whenever layer_status changes, DirectionsServiceException with
\* the message "No directions returned: " followed by the new status is
\* raised if the new status is not "OK", and nothing is raised if it is.
C4_StatusChangeRaisesUnlessOK ==
    [][layer_status' # layer_status =>
          raised' = IF layer_status' = "OK"
                    THEN None
                    ELSE <<"DirectionsServiceException",
                           <<"No directions returned: ", layer_status'>>>>]_vars

\* The browser-side widget has reported ZERO_RESULTS and the exception
\* carrying that status has been raised.
C4_Witness ==
    /\ call.op = "layer_status"
    /\ layer_status = "ZERO_RESULTS"
    /\ raised = <<"DirectionsServiceException",
                  <<"No directions returned: ", "ZERO_RESULTS">>>>

\* C5: a data list of fewer than two points is rejected with an error,
\* by the constructor (no widget is created) and by an assignment to the
\* data trait, and the data trait never holds such a list.
C5_ShortDataIsRejected ==
    /\ (call.op = "init" /\ call.arg.data # None
            /\ Len(Val(call.arg.data)) < 2)
       => (raised # None /\ ~constructed)
    /\ (call.op = "data" /\ call.arg # None /\ Len(Val(call.arg)) < 2)
       => raised # None
    /\ data # None => Len(Val(data)) >= 2

\* C6: the points of the route are always in range (latitude in
\* [-90, 90], longitude in [-180, 180]), and a construction or an
\* assignment that is given a point out of range, directly or in a data
\* list, raises an error and leaves the route as it was (no widget, for a
\* construction).
C6_RouteStaysInRange ==
    [][/\ constructed' =>
              \A p \in RoutePoints' : InRange(p)
       /\ (/\ call'.op = "init"
           /\ \/ OutOfRangeOpt(call'.arg.start)
              \/ OutOfRangeOpt(call'.arg.end)
              \/ OutOfRangeOptList(call'.arg.waypoints)
              \/ OutOfRangeOptList(call'.arg.data))
          => (raised' # None /\ ~constructed')
       /\ (/\ call'.op \in {"start", "end"}
           /\ ~InRange(call'.arg))
          => (raised' # None
              /\ <<start, end, waypoints>>' = <<start, end, waypoints>>)
       /\ (/\ call'.op = "waypoints"
           /\ OutOfRangeList(call'.arg))
          => (raised' # None
              /\ <<start, end, waypoints>>' = <<start, end, waypoints>>)
       /\ (/\ call'.op = "data"
           /\ OutOfRangeOptList(call'.arg))
          => (raised' # None
              /\ <<start, end, waypoints>>' = <<start, end, waypoints>>)
      ]_vars

\* C7: travel_mode is always one of the four modes, it is DRIVING after
\* a construction that does not specify it, and a construction or an
\* assignment given any other value raises an error and leaves
\* travel_mode as it was (no widget, for a construction).
C7_TravelModeIsAllowed ==
    [][/\ travel_mode' \in FourModes
       /\ (call'.op = "init" /\ constructed'
               /\ call'.arg.travel_mode = None)
          => travel_mode' = "DRIVING"
       /\ (call'.op = "init" /\ call'.arg.travel_mode # None
               /\ Val(call'.arg.travel_mode) \notin FourModes)
          => (raised' # None /\ ~constructed')
       /\ (call'.op = "travel_mode" /\ call'.arg \notin FourModes)
          => (raised' # None /\ travel_mode' = travel_mode)
      ]_vars

\* An assignment of FLYING has just been refused on a widget whose
\* travel mode had been changed from the default.
C7_Witness ==
    /\ constructed
    /\ call.op = "travel_mode"
    /\ call.arg = "FLYING"
    /\ raised = TraitError
    /\ travel_mode = "TRANSIT"
====
